---- MODULE Spec2Model ----
(***************************************************************************)
(* Session lifecycle of the Research Paper Tutor (src/app.py).             *)
(*                                                                         *)
(* The Streamlit script is re-executed from top to bottom on every user    *)
(* event.  What survives between executions is st.session_state            *)
(* (messages, paper_txt, llm), the file held by the uploader widget and    *)
(* the files on disk.  Each action below is one user event together with   *)
(* the complete script execution it triggers.                              *)
(***************************************************************************)
EXTENDS Integers, Sequences, FiniteSets, TLC

VARIABLES
    messages,       \* st.session_state.messages
    paper_txt,      \* st.session_state.paper_txt
    llm,            \* st.session_state.llm
    uploaded_file,  \* value of the st.file_uploader widget
    tmp_files,      \* temporary PDF copies still present on disk
    api_key,        \* whether os.getenv("OPENAI_API_KEY") is set
    last            \* what the most recent script execution did (observation
                    \* only; clears counts successive successful Clear Chat
                    \* executions, saturating at 2)

vars == <<messages, paper_txt, llm, uploaded_file, tmp_files, api_key, last>>

----------------------------------------------------------------------------
(* Program constants (src/config.py) *)

MAX_PAPER_CHARS == 100000
WARNING_PAPER_CHARS == 80000

(* Bounds of the model *)

MaxTurns == 2        \* user turns a Transcript may hold
MaxHist == 4         \* messages a backend handle's history may hold
MaxTmpFiles == 1     \* temporary files that may pile up on disk
MaxStr == 4          \* characters of a fully spelled-out paper text

\* Python's None
None == [none |-> TRUE]

\* Markdown lengths around the two thresholds, for paper "A"; paper "B" is a
\* second, small paper.
Lens == {80000, 80001, 100000, 100001}
Prompts == {"q1", "q2"}
Replies == {"r1"}
Errors == {"e1"}

\* An uploaded PDF: its identity and the length of the markdown that
\* pymupdf4llm.to_markdown produces for it.
Files == [name : {"A"}, len : Lens] \cup [name : {"B"}, len : {500}]

\* A string is written [doc |-> the symbols that are spelled out,
\* len |-> its number of characters].  A long paper is abbreviated to one
\* symbol; a short one is spelled out character by character.

\* pymupdf4llm.to_markdown(tmp_file_path) when it does not raise.
to_markdown(f) == [doc |-> <<f.name>>, len |-> f.len]

\* len(paper_txt)
StrLen(t) == t.len

\* Short paper texts spelled out over a letter and the two brace characters,
\* the empty text included.
Alphabet == {"a", "{", "}"}
SmallTexts ==
    {[doc |-> d, len |-> Len(d)] :
        d \in UNION {[1..n -> Alphabet] : n \in 0..MaxStr}}

\* SYSTEM_PROMPT_TEMPLATE: the text before the replacement field, the field
\* {paper_txt}, then the rules, the teaching flow and the bad example.  The
\* literal stretches contain no brace and are one symbol each.
SYSTEM_PROMPT_TEMPLATE ==
    <<"HEAD", "{", "paper_txt", "}", "RULES", "FLOW", "BAD">>

\* What str.format does when it raises (ValueError, KeyError, IndexError).
FormatRaised == [ok |-> FALSE, out |-> <<>>]

\* str.format with the single keyword argument paper_txt, scanning the
\* template from position i: "{{" and "}}" are escapes, "{paper_txt}" is
\* replaced by the argument, which is copied and not scanned again; any
\* other field, an unclosed "{" or a single "}" raises.
RECURSIVE Scan(_, _, _, _)
Scan(tpl, i, arg, out) ==
    IF i > Len(tpl) THEN [ok |-> TRUE, out |-> out]
    ELSE IF tpl[i] = "{"
    THEN IF i < Len(tpl) /\ tpl[i + 1] = "{"
         THEN Scan(tpl, i + 2, arg, Append(out, "{"))
         ELSE IF i + 2 <= Len(tpl) /\ tpl[i + 1] = "paper_txt"
                                  /\ tpl[i + 2] = "}"
         THEN Scan(tpl, i + 3, arg, out \o arg)
         ELSE FormatRaised
    ELSE IF tpl[i] = "}"
    THEN IF i < Len(tpl) /\ tpl[i + 1] = "}"
         THEN Scan(tpl, i + 2, arg, Append(out, "}"))
         ELSE FormatRaised
    ELSE Scan(tpl, i + 1, arg, Append(out, tpl[i]))

\* Variant: the formatted text is formatted a second time, so the braces of
\* the paper are read as escapes and fields.
str_format_twice(tpl, arg) ==
    LET once == Scan(tpl, 1, arg, <<>>)
    IN  IF once.ok THEN Scan(once.out, 1, arg, <<>>) ELSE once

\* tpl.format(paper_txt=arg)
str_format(tpl, arg) == Scan(tpl, 1, arg, <<>>)

\* SYSTEM_PROMPT_TEMPLATE.format(paper_txt=paper_txt): the prompt as a string,
\* or FormatRaised.
create_system_prompt(t) ==
    LET r == str_format(SYSTEM_PROMPT_TEMPLATE, t.doc)
    IN  IF r.ok
        THEN [doc |-> r.out, len |-> t.len + Len(r.out) - Len(t.doc)]
        ELSE FormatRaised

\* lisette Chat(model=DEFAULT_MODEL, sp=system_prompt, temp=DEFAULT_TEMPERATURE)
\* when it does not raise: a handle with the prompt and an empty history.
Chat(sp) == [sp |-> sp, hist |-> <<>>]

UserMsg(p) == [role |-> "user", content |-> p]
AssistantMsg(c) == [role |-> "assistant", content |-> c]

\* f"Error generating response: {str(e)}"
FormatError(e) == <<"Error generating response: ", e>>

----------------------------------------------------------------------------
(* The credential check at the top of the script *)

\* Variant: the error is shown but st.stop() is missing.
StopsNever == FALSE

\* "if not os.getenv(...): st.error(...); st.stop()": the execution ends
\* before session_state is touched and before any widget is created.
Stops == ~api_key

----------------------------------------------------------------------------
(* The size guard of the upload handler *)

TooLarge(n) == n > MAX_PAPER_CHARS

NeedsWarning(n) == ~TooLarge(n) /\ n > WARNING_PAPER_CHARS

\* Variant: the "only proceed if not too large" test is missing.
ProceedsAlways(n) == TRUE

\* Variant: the limit itself is rejected (< instead of <=).
ProceedsStrict(n) == n < MAX_PAPER_CHARS

\* Variant: the limit is off by one.
ProceedsOffByOne(n) == n <= MAX_PAPER_CHARS + 1

Proceeds(n) == n <= MAX_PAPER_CHARS

\* Variant: paper_txt is stored before Chat is called and survives its failure.
UploadCommitEarly(text, chat_ok) ==
    IF chat_ok
    THEN [paper_txt |-> text, llm |-> Chat(create_system_prompt(text))]
    ELSE [paper_txt |-> text, llm |-> None]

\* Variant: the handle is built but not stored.
UploadCommitNoSession(text, chat_ok) ==
    IF chat_ok
    THEN [paper_txt |-> text, llm |-> None]
    ELSE [paper_txt |-> None, llm |-> None]

\* session_state after the guarded block: both fields are stored only after
\* Chat returned; the except branch resets both.
UploadCommit(text, chat_ok) ==
    IF chat_ok
    THEN [paper_txt |-> text, llm |-> Chat(create_system_prompt(text))]
    ELSE [paper_txt |-> None, llm |-> None]

\* Outcomes of the calls the upload handler makes into its environment.
\*   stage : NamedTemporaryFile raises, write/getvalue raises, or all fine
\*   extract, chat, unlink : the call returns (TRUE) or raises (FALSE)
\* A call that is not reached is listed once, as TRUE.
Outcomes ==
    {o \in [stage : {"ok", "create_fail", "write_fail"},
            extract : BOOLEAN, chat : BOOLEAN, unlink : BOOLEAN] :
        /\ o.stage # "ok" => (o.extract /\ o.chat /\ o.unlink)
        /\ ~o.extract => o.chat}

NoRun == [event |-> "init", ran |-> FALSE, extracted |-> None,
          chat_called |-> FALSE, chat_ok |-> FALSE,
          warning |-> FALSE, size_error |-> FALSE,
          tmp_created |-> FALSE, tmp_left |-> FALSE,
          prompt |-> "", call_ok |-> FALSE, clears |-> 0,
          prior |-> "none"]

\* How the upload handler ended in the execution described by l: with an
\* exception before a text was extracted, with the size error, or otherwise.
UploadEnd(l) ==
    IF l.event = "upload" /\ l.ran
    THEN IF l.size_error THEN "rejected"
         ELSE IF l.extracted = None THEN "failed" ELSE "none"
    ELSE "none"

Init ==
    /\ messages = <<>>
    /\ paper_txt = None
    /\ llm = None
    /\ uploaded_file = None
    /\ tmp_files = 0
    /\ api_key \in BOOLEAN
    /\ last = NoRun

\* The page is loaded without the credential: the script stops at st.stop().
StoppedRun ==
    /\ Stops
    /\ last' = [NoRun EXCEPT !.event = "stopped"]
    /\ UNCHANGED <<messages, paper_txt, llm, uploaded_file, tmp_files, api_key>>

\* The try/except/finally block of the upload handler, for file f and
\* environment outcome o.
ProcessUpload(f, o) ==
    LET staged     == o.stage = "ok"
        created    == o.stage # "create_fail"
        extracted  == staged /\ o.extract
        text       == to_markdown(f)
        n          == StrLen(text)
        proceeds   == extracted /\ Proceeds(n)
        raised     == ~staged \/ ~o.extract \/ (proceeds /\ ~o.chat)
        \* finally: unlink only when tmp_file_path was assigned
        left       == created /\ (~staged \/ ~o.unlink)
        commit     == UploadCommit(text, o.chat)
    IN  /\ left => tmp_files < MaxTmpFiles
        /\ paper_txt' = IF proceeds THEN commit.paper_txt
                        ELSE IF raised THEN None ELSE paper_txt
        /\ llm' = IF proceeds THEN commit.llm
                  ELSE IF raised THEN None ELSE llm
        /\ tmp_files' = IF left THEN tmp_files + 1 ELSE tmp_files
        /\ last' = [NoRun EXCEPT !.event = "upload", !.ran = TRUE,
                       !.extracted = IF extracted THEN text ELSE None,
                       !.chat_called = proceeds,
                       !.chat_ok = proceeds /\ o.chat,
                       !.size_error = extracted /\ TooLarge(n),
                       !.warning = extracted /\ NeedsWarning(n),
                       !.tmp_created = created,
                       !.tmp_left = left,
                       !.prior = UploadEnd(last)]

\* Variant: the handler is not guarded by "paper_txt is None".
UploadAlways(f, o) ==
    /\ ~Stops
    /\ api_key' = api_key
    /\ uploaded_file' = f
    /\ messages' = messages
    /\ ProcessUpload(f, o)

\* The user puts file f into the uploader; the script runs.
Upload(f, o) ==
    /\ ~Stops
    /\ api_key' = api_key
    /\ uploaded_file' = f
    /\ messages' = messages
    /\ IF paper_txt = None
       THEN ProcessUpload(f, o)
       ELSE /\ UNCHANGED <<paper_txt, llm, tmp_files>>
            /\ last' = [NoRun EXCEPT !.event = "upload"]

\* The user removes the file from the uploader; the script runs and the
\* upload handler is skipped (uploaded_file is None).
RemoveFile ==
    /\ ~Stops
    /\ uploaded_file # None
    /\ uploaded_file' = None
    /\ last' = [NoRun EXCEPT !.event = "remove"]
    /\ UNCHANGED <<messages, paper_txt, llm, tmp_files, api_key>>

----------------------------------------------------------------------------
(* The chat interface, shown when paper_txt is set *)

\* "Reinitialize AI Tutor": Chat is retried inside try/except.
Reinitialize(chat_ok) ==
    /\ llm' = IF chat_ok THEN Chat(create_system_prompt(paper_txt)) ELSE llm
    /\ last' = [NoRun EXCEPT !.event = "reinit", !.chat_called = TRUE,
                             !.chat_ok = chat_ok]
    /\ UNCHANGED <<messages, paper_txt, uploaded_file, tmp_files, api_key>>

\* Variant: Clear Chat resets messages but keeps the handle.
ClearedSessionKeep(old, txt, chat_ok) == old

\* session_state.llm after the Clear Chat handler: the assignment happens
\* only when Chat returned; when it raises, the script execution ends with
\* the previous handle still stored.
ClearedSession(old, txt, chat_ok) ==
    IF chat_ok THEN Chat(create_system_prompt(txt)) ELSE old

\* "Clear Chat": messages is reset first, then the handle is rebuilt and the
\* script reruns (the rerun changes nothing: the upload guard is false).
ClearChat(chat_ok) ==
    /\ messages' = <<>>
    /\ llm' = ClearedSession(llm, paper_txt, chat_ok)
    /\ last' = [NoRun EXCEPT !.event = "clear", !.chat_called = TRUE,
                             !.chat_ok = chat_ok,
                             !.clears = IF ~chat_ok THEN 0
                                        ELSE IF last.clears = 0 THEN 1 ELSE 2]
    /\ UNCHANGED <<paper_txt, uploaded_file, tmp_files, api_key>>

\* The button the interface shows is decided by "if llm is None / else".
\* No execution stores paper_txt without llm (see UploadCommit), so the
\* Reinitialize branch is never the one shown.
ButtonClick(chat_ok) ==
    /\ ~Stops
    /\ paper_txt # None
    /\ IF llm = None THEN Reinitialize(chat_ok) ELSE ClearChat(chat_ok)

\* Variant: the user message is appended a second time with the reply.
ReplyTurnDup(msgs, p, r) ==
    Append(Append(Append(msgs, UserMsg(p)), UserMsg(p)), AssistantMsg(r))

\* Transcript after a turn whose backend call returned reply r.
ReplyTurn(msgs, p, r) == Append(Append(msgs, UserMsg(p)), AssistantMsg(r))

\* Variant: the except branch shows the error but does not record it.
ErrorTurnNoPair(msgs, p, e) == Append(msgs, UserMsg(p))

\* Variant: the except branch replaces the Transcript by the failing turn.
ErrorTurnOverwrites(msgs, p, e) ==
    <<UserMsg(p), AssistantMsg(FormatError(e))>>

\* Transcript after a turn whose backend call raised e.
ErrorTurn(msgs, p, e) ==
    Append(Append(msgs, UserMsg(p)), AssistantMsg(FormatError(e)))

\* History of the handle after llm(prompt) returned r.
HistAfterReply(h, p, r) == Append(Append(h, UserMsg(p)), AssistantMsg(r))

\* History of the handle after llm(prompt) raised: the library may or may not
\* have recorded the user turn before the failing request.
HistAfterError(h, p) == {h, Append(h, UserMsg(p))}

\* The user submits prompt p in st.chat_input and the backend replies r.
SendOk(p, r) ==
    /\ ~Stops
    /\ paper_txt # None /\ llm # None
    /\ Len(messages) < 2 * MaxTurns
    /\ Len(llm.hist) + 2 <= MaxHist
    /\ messages' = ReplyTurn(messages, p, r)
    /\ llm' = [llm EXCEPT !.hist = HistAfterReply(llm.hist, p, r)]
    /\ last' = [NoRun EXCEPT !.event = "send", !.prompt = p, !.call_ok = TRUE]
    /\ UNCHANGED <<paper_txt, uploaded_file, tmp_files, api_key>>

\* Variant: the except branch also drops the handle.
SendFailUnsets(p, e) ==
    /\ ~Stops
    /\ paper_txt # None /\ llm # None
    /\ Len(messages) < 2 * MaxTurns
    /\ Len(llm.hist) + 2 <= MaxHist
    /\ messages' = ErrorTurn(messages, p, e)
    /\ llm' = None
    /\ last' = [NoRun EXCEPT !.event = "send", !.prompt = p, !.call_ok = FALSE]
    /\ UNCHANGED <<paper_txt, uploaded_file, tmp_files, api_key>>

\* The user submits prompt p and the backend call raises e.
SendFail(p, e) ==
    /\ ~Stops
    /\ paper_txt # None /\ llm # None
    /\ Len(messages) < 2 * MaxTurns
    /\ Len(llm.hist) + 2 <= MaxHist
    /\ messages' = ErrorTurn(messages, p, e)
    /\ \E h \in HistAfterError(llm.hist, p) : llm' = [llm EXCEPT !.hist = h]
    /\ last' = [NoRun EXCEPT !.event = "send", !.prompt = p, !.call_ok = FALSE]
    /\ UNCHANGED <<paper_txt, uploaded_file, tmp_files, api_key>>

Next ==
    \/ StoppedRun
    \/ \E f \in Files, o \in Outcomes : Upload(f, o)
    \/ RemoveFile
    \/ \E chat_ok \in BOOLEAN : ButtonClick(chat_ok)
    \/ \E p \in Prompts, r \in Replies : SendOk(p, r)
    \/ \E p \in Prompts, e \in Errors : SendFail(p, e)

Spec == Init /\ [][Next]_vars

----------------------------------------------------------------------------
(* The prompt builder on spelled-out texts *)

\* The guarded block of the upload handler for an extracted text t within
\* the limit, with Chat returning: the prompt is built from t and both
\* fields are stored.
CommitText(t) ==
    /\ ~Stops
    /\ paper_txt = None
    /\ Proceeds(StrLen(t))
    /\ LET commit == UploadCommit(t, TRUE)
       IN  /\ paper_txt' = commit.paper_txt
           /\ llm' = commit.llm
    /\ last' = [NoRun EXCEPT !.event = "upload", !.ran = TRUE,
                             !.extracted = t, !.chat_called = TRUE,
                             !.chat_ok = TRUE, !.tmp_created = TRUE,
                             !.prior = UploadEnd(last)]
    /\ UNCHANGED <<messages, uploaded_file, tmp_files, api_key>>

NextPrompt == \E t \in SmallTexts : CommitText(t)

SpecPrompt == Init /\ [][NextPrompt]_vars

----------------------------------------------------------------------------
(* Properties *)

\* The last script execution ran the upload handler and extraction returned
\* a text.
Extracted == last.event = "upload" /\ last.ran /\ last.extracted # None

\* C1: when the extracted text is longer than MAX_PAPER_CHARS the upload
\* handler does not call Chat, and afterwards paper_txt and llm are unset.
C1_OversizeRejected ==
    (Extracted /\ StrLen(last.extracted) > MAX_PAPER_CHARS)
        => (~last.chat_called /\ paper_txt = None /\ llm = None)

C1_Witness ==
    /\ Extracted
    /\ StrLen(last.extracted) > MAX_PAPER_CHARS
    /\ last.size_error

\* C2: uploading another paper B while paper A is loaded and its handle built
\* replaces everything: afterwards paper_txt is B's text, llm is built from
\* B's prompt and the Transcript holds nothing of the dialogue about A.
C2_UploadReplaces ==
    [][(/\ paper_txt # None /\ llm # None
        /\ last'.event = "upload"
        /\ <<uploaded_file'.name>> # paper_txt.doc
        /\ Proceeds(uploaded_file'.len))
       => (/\ paper_txt' = to_markdown(uploaded_file')
           /\ llm' # None
           /\ llm'.sp = create_system_prompt(to_markdown(uploaded_file'))
           /\ messages' = <<>>)]_vars

\* C3: when the backend call of a turn raises, the Transcript before the turn
\* is kept as it was, the user message is appended with the submitted prompt
\* and exactly one assistant message with the formatted error follows it.
C3_FailedTurnIsolated ==
    [][(last'.event = "send" /\ ~last'.call_ok)
       => LET n == Len(messages) IN
          /\ Len(messages') = n + 2
          /\ SubSeq(messages', 1, n) = messages
          /\ messages'[n + 1] = UserMsg(last'.prompt)
          /\ messages'[n + 2].role = "assistant"
          /\ \E e \in Errors : messages'[n + 2].content = FormatError(e)]_vars

C3_Witness ==
    /\ last.event = "send" /\ ~last.call_ok
    /\ Len(messages) = 4
    /\ messages[2].content \in Replies

\* C4: when Chat raises during an upload whose text was extracted and is
\* within the limit, paper_txt holds the extracted text, llm is unset and the
\* Transcript is empty.
C4_InitFailureKeepsText ==
    (Extracted /\ last.chat_called /\ ~last.chat_ok)
        => (paper_txt = last.extracted /\ llm = None /\ messages = <<>>)

\* C5: when Chat raises during Clear Chat, no handle is left in llm, the
\* paper text is kept and the Transcript is empty.
C5_ClearFailureUnsetsSession ==
    (last.event = "clear" /\ ~last.chat_ok)
        => (llm = None /\ paper_txt # None /\ messages = <<>>)

\* C6: a successful Clear Chat directly after a successful Clear Chat leaves
\* the state as the first one left it: empty Transcript, same paper text, a
\* handle built from that text with an empty history.
C6_ClearIdempotent ==
    [][(/\ last.event = "clear" /\ last.chat_ok
        /\ last'.event = "clear" /\ last'.chat_ok)
       => (/\ messages' = messages /\ messages' = <<>>
           /\ paper_txt' = paper_txt
           /\ llm' = llm
           /\ llm' = Chat(create_system_prompt(paper_txt')))]_vars

C6_Witness ==
    /\ last.event = "clear" /\ last.chat_ok /\ last.clears = 2
    /\ messages = <<>> /\ llm.hist = <<>>

\* C7: the Transcript is empty or alternates user, assistant, user,
\* assistant, ... starting with a user message, with even length.
Alternates(msgs) ==
    /\ Len(msgs) % 2 = 0
    /\ \A i \in 1..Len(msgs) :
          msgs[i].role = IF i % 2 = 1 THEN "user" ELSE "assistant"

C7_TranscriptAlternates == Alternates(messages)

C7_Witness ==
    /\ Len(messages) = 4
    /\ \E i, j \in {2, 4} : /\ messages[i].content \in Replies
                            /\ messages[j].content \notin Replies

\* C8: whenever paper_txt is set, llm holds a handle built from the system
\* prompt of that same text.
C8_TextPairedWithSession ==
    paper_txt # None
        => (llm # None /\ llm.sp = create_system_prompt(paper_txt))

C8_Witness ==
    /\ paper_txt # None
    /\ last.event = "clear" /\ ~last.chat_ok
    /\ llm.hist # <<>>

\* C9: for an extracted length above WARNING_PAPER_CHARS and up to and
\* including MAX_PAPER_CHARS a warning is shown, Chat is called, and when
\* Chat returns the paper text and the handle built from it are stored.
C9_WarningDoesNotBlock ==
    (/\ Extracted
     /\ StrLen(last.extracted) > WARNING_PAPER_CHARS
     /\ StrLen(last.extracted) <= MAX_PAPER_CHARS)
        => (/\ last.warning /\ ~last.size_error
            /\ last.chat_called
            /\ last.chat_ok =>
                  (/\ paper_txt = last.extracted
                   /\ llm = Chat(create_system_prompt(last.extracted))))

C9_Witness ==
    /\ Extracted
    /\ StrLen(last.extracted) = MAX_PAPER_CHARS
    /\ last.warning /\ last.chat_ok
    /\ paper_txt = last.extracted

\* C10: after the upload handler ran, no temporary file created by that
\* execution is left on disk.
C10_TempFileReleased ==
    (last.event = "upload" /\ last.ran /\ last.tmp_created) => ~last.tmp_left

\* s is an initial segment of t.
IsPrefix(s, t) == Len(s) <= Len(t) /\ SubSeq(t, 1, Len(s)) = s

\* C11: after an upload that ended with a failed extraction attempt or with
\* the size error, paper_txt and llm are unset, and an upload that follows
\* is processed: when its text is extracted and within the limit Chat is
\* called, and when Chat returns the paper is loaded with its handle.
C11_FailedUploadRecoverable ==
    [][UploadEnd(last) \in {"failed", "rejected"}
       => /\ paper_txt = None /\ llm = None
          /\ last'.event = "upload"
             => /\ last'.ran
                /\ (/\ last'.extracted # None
                    /\ StrLen(last'.extracted) <= MAX_PAPER_CHARS)
                   => /\ last'.chat_called
                      /\ last'.chat_ok
                         => /\ paper_txt' = last'.extracted
                            /\ llm' = Chat(create_system_prompt(
                                               last'.extracted))]_vars

C11_Witness ==
    /\ Extracted /\ last.chat_ok
    /\ last.prior = "rejected"
    /\ paper_txt = last.extracted /\ llm # None

\* C12: while the credential is missing no upload is processed, Chat is
\* never called and nothing of the session state is changed.
C12_NoKeyStops ==
    ~api_key
        => /\ messages = <<>> /\ paper_txt = None /\ llm = None
           /\ uploaded_file = None /\ tmp_files = 0
           /\ last.event \in {"init", "stopped"}
           /\ ~last.ran /\ ~last.chat_called

C12_Witness == ~api_key /\ last.event = "stopped"

\* C13: for every paper text, the empty text and texts with braces included,
\* create_system_prompt does not raise and returns the template's literal
\* text with the paper text copied unchanged at the replacement field.
C13_PromptVerbatim ==
    (paper_txt # None /\ llm # None)
        => /\ llm.sp # FormatRaised
           /\ llm.sp.doc = <<"HEAD">> \o paper_txt.doc
                               \o <<"RULES", "FLOW", "BAD">>

C13_Witness ==
    /\ paper_txt # None /\ llm # None
    /\ paper_txt.doc = <<"{", "a", "}", "}">>
    /\ llm.sp # FormatRaised

\* The turns of a message sequence that were answered by the backend: a user
\* message directly followed by a reply.  Turns whose call raised are left
\* out, since the handle may or may not have recorded their user message.
RECURSIVE AnsweredTurns(_)
AnsweredTurns(h) ==
    IF Len(h) < 2 THEN <<>>
    ELSE IF /\ h[1].role = "user" /\ h[2].role = "assistant"
            /\ h[2].content \in Replies
         THEN <<h[1], h[2]>> \o AnsweredTurns(SubSeq(h, 3, Len(h)))
         ELSE AnsweredTurns(Tail(h))

\* C14: whenever a handle is stored, the Transcript and the handle's history
\* hold the same answered turns in the same order, and an empty Transcript
\* goes with an empty history.
C14_TranscriptMirrorsHistory ==
    llm # None
        => /\ AnsweredTurns(messages) = AnsweredTurns(llm.hist)
           /\ messages = <<>> => llm.hist = <<>>

\* C15: a user turn, answered or failed, leaves paper_txt as it is and keeps
\* the same handle stored (same prompt, history only extended).
C15_TurnKeepsSession ==
    [][last'.event = "send"
       => /\ paper_txt' = paper_txt /\ paper_txt' # None
          /\ llm' # None
          /\ llm'.sp = llm.sp
          /\ IsPrefix(llm.hist, llm'.hist)]_vars

C15_Witness ==
    /\ last.event = "send" /\ last.call_ok
    /\ Len(messages) = 4
    /\ messages[2].content \notin Replies
    /\ paper_txt # None /\ llm # None

\* C16: in every step the Transcript before is an initial segment of the
\* Transcript after, or the step is Clear Chat and the Transcript after is
\* empty.
C16_TranscriptAppendOnly ==
    [][\/ IsPrefix(messages, messages')
       \/ last'.event = "clear" /\ messages' = <<>>]_vars

C16_Witness ==
    /\ last.event = "clear" /\ last.clears = 1
    /\ messages = <<>>

\* C17: when an upload ends with the text extracted, accepted and Chat
\* returned, paper_txt is the extracted text, llm the handle built from it
\* and the Transcript is empty.
C17_UploadSuccessIsReady ==
    (Extracted /\ last.chat_ok)
        => /\ paper_txt = last.extracted
           /\ llm = Chat(create_system_prompt(last.extracted))
           /\ messages = <<>>

C17_Witness ==
    /\ Extracted /\ last.chat_ok
    /\ last.prior = "failed"
    /\ tmp_files > 0

\* C19: once paper_txt and llm are set, no step changes paper_txt or unsets
\* llm.
C19_LoadedPaperKept ==
    [][(paper_txt # None /\ llm # None)
       => (paper_txt' = paper_txt /\ llm' # None)]_vars

C19_Witness ==
    /\ paper_txt # None /\ llm # None
    /\ last.event = "upload" /\ ~last.ran
    /\ uploaded_file # None
    /\ to_markdown(uploaded_file) # paper_txt

====
